---- MODULE Spec2Model ----
(***************************************************************************)
(* The WebSocket broadcast core of the chat server (registerRoutes) and   *)
(* the two IStorage implementations (MemStorage, MongoStorage).            *)
(*                                                                         *)
(* Every ws.on("message") / ws.on("close") invocation is a handler that    *)
(* runs synchronously up to its next `await` on the store.  With           *)
(* MemStorage the store call has finished when the await is reached and    *)
(* the handler resumes from the microtask queue (FIFO, drained before the  *)
(* next socket event; frames of one data chunk are emitted back to back).  *)
(* With MongoStorage every awaited database operation takes effect and     *)
(* resumes its handler at an arbitrary later moment.                       *)
(***************************************************************************)
EXTENDS Integers, Sequences, FiniteSets, TLC

Conns == {"c1", "c2"}
Rooms == {"r1", "r2"}
Names == {"alice", "bob"}
Contents == {"hi"}
StorageKinds == {"mem", "mongo"}

\* the number of handler invocations (frames with an effect, closes) explored
MaxFrames == 3
\* the number of handlers awaiting the store at the same time
MaxInFlight == 2
\* the number of times the millisecond clock advances
MaxClock == 1
\* the number of database operations that fail
MaxFailures == 1
\* the number of sockets whose writes fail
MaxBroken == 1
\* the largest ?limit= of a history request
MaxLimit == 4

\* undefined / absent (ws.chatRoomId before any join, a missing frame field)
None == "none"

VARIABLES
    storageKind,    \* which IStorage `storage` is bound to (updateStorage)
    ws,             \* ws[c]: readyState, chatRoomId, userName of connection c, and
                    \* whether writes to its socket fail
    participants,   \* participants[r]: participant records of room r, in insertion order
    messages,       \* messages[r]: message records of room r, in insertion order
    tasks,          \* handler invocations, in the order they were invoked
    runq,           \* MemStorage: handlers waiting in the microtask queue
    chunk,          \* the connection whose data chunk is being emitted
    now,            \* the clock (Date.now)
    inbox,          \* inbox[c]: the payloads sent to connection c, in order
    response        \* the answer to the last GET /api/chatrooms/:id/messages

vars == <<storageKind, ws, participants, messages, tasks, runq, chunk, now, inbox, response>>

----------------------------------------------------------------------------
(* Storage *)

SystemUser == "System"

NoMessage ==
    [id |-> 0, chatRoomId |-> None, userName |-> None, content |-> <<>>,
     messageType |-> None, timestamp |-> 0]

\* a createMessage that stores every record as a user message
NewMessageAlwaysUser(id, room, user, content, mtype, ts) ==
    [id |-> id, chatRoomId |-> room, userName |-> user, content |-> content,
     messageType |-> "user", timestamp |-> ts]

\* InsertMessage completed by createMessage: id, timestamp, and
\* messageType || "user" (an absent and an empty messageType are both falsy)
NewMessage(id, room, user, content, mtype, ts) ==
    [id |-> id, chatRoomId |-> room, userName |-> user, content |-> content,
     messageType |-> IF mtype \in {None, ""} THEN "user" ELSE mtype, timestamp |-> ts]

NewParticipant(id, name, ts) ==
    [id |-> id, userName |-> name, joinedAt |-> ts, isActive |-> TRUE]

\* roomParticipants.filter(p => p.userName !== userName) / deleteMany({chatRoomId, userName})
WithoutName(ps, name) == SelectSeq(ps, LAMBDA p : p.userName # name)

AddParticipantMem(parts, room, p) ==
    [parts EXCEPT ![room] = Append(WithoutName(@, p.userName), p)]

RemoveParticipant(parts, room, name) ==
    [parts EXCEPT ![room] = WithoutName(@, name)]

SaveParticipant(parts, room, p) ==
    [parts EXCEPT ![room] = Append(@, p)]

\* the value removeParticipant returns: filtered.length < originalLength / deletedCount > 0
Removed(parts, room, name) == Len(WithoutName(parts[room], name)) < Len(parts[room])

\* a createMessage that stores nothing
CreateMessageDropped(msgs, m) == msgs

\* a createMessage that stores the record twice
CreateMessageTwice(msgs, m) ==
    [msgs EXCEPT ![m.chatRoomId] = Append(Append(@, m), m)]

CreateMessage(msgs, m) ==
    [msgs EXCEPT ![m.chatRoomId] = Append(@, m)]

getActiveParticipantCount(room) ==
    Len(SelectSeq(participants[room], LAMBDA p : p.isActive))

getMessageCount(room) == Len(messages[room])

\* a find without the sort: insertion order
SortByNothing(s) == s

\* .sort({ timestamp: 1 }): ascending by timestamp, equal timestamps in insertion order
RECURSIVE SortByTimestamp(_)
SortByTimestamp(s) ==
    IF s = <<>> THEN <<>>
    ELSE LET sorted == SortByTimestamp(SubSeq(s, 1, Len(s) - 1))
             m == s[Len(s)]
             k == Cardinality({i \in 1..Len(sorted) : sorted[i].timestamp <= m.timestamp})
         IN  SubSeq(sorted, 1, k) \o <<m>> \o SubSeq(sorted, k + 1, Len(sorted))

\* the room's message log as the store presents it (getMessages without the limit)
Log(room) ==
    IF storageKind = "mongo" THEN SortByTimestamp(messages[room]) ELSE messages[room]

\* Array.prototype.slice(start): a negative start counts from the end
Slice(s, start) ==
    LET n == Len(s)
        from == IF start < 0
                THEN (IF n + start > 0 THEN n + start ELSE 0)
                ELSE (IF start < n THEN start ELSE n)
    IN  SubSeq(s, from + 1, n)

\* cursor.limit(n): the first n documents, and limit(0) is no limit
Limit(s, n) == IF n = 0 THEN s ELSE SubSeq(s, 1, IF n < Len(s) THEN n ELSE Len(s))

\* slice(1 - limit): one entry short
getMessagesMemShort(room, limit) == Slice(messages[room], 1 - limit)

getMessagesMem(room, limit) == Slice(messages[room], 0 - limit)

getMessagesMongo(room, limit) == Limit(SortByTimestamp(messages[room]), limit)

getMessages(room, limit) ==
    IF storageKind = "mem" THEN getMessagesMem(room, limit) ELSE getMessagesMongo(room, limit)

NoResponse == [chatRoomId |-> None, limit |-> 0, messages |-> <<>>]

----------------------------------------------------------------------------
(* Broadcast *)

Payload(type, name, room, msg) ==
    [type |-> type, userName |-> name, chatRoomId |-> room, message |-> msg]

\* broadcastToChatRoom without the test of the client's room
BroadcastTargetsAnyRoom(w, room, excludeWs) ==
    {c \in Conns : c # excludeWs /\ w[c].readyState = "OPEN"}

\* a loop over wss.clients that ends after the first client
BroadcastTargetsFirstOnly(w, room, excludeWs) ==
    {c \in Conns : c # excludeWs /\ w[c].readyState = "OPEN" /\ w[c].chatRoomId = room}
        \cap {"c1"}

\* a client filter without the readyState test
BroadcastTargetsAnyState(w, room, excludeWs) ==
    {c \in Conns : c # excludeWs /\ w[c].chatRoomId = room}

BroadcastTargets(w, room, excludeWs) ==
    {c \in Conns : c # excludeWs /\ w[c].readyState = "OPEN" /\ w[c].chatRoomId = room}

\* a forEach that stops at a failing client.send: nobody is served
SentAbortOnFailure(w, targets) ==
    IF \E c \in targets : w[c].broken THEN {} ELSE targets

\* the clients whose client.send(...) puts the payload on the wire: a send on a
\* socket whose writes fail reports the error to its (absent) callback only
Sent(w, targets) == {c \in targets : ~w[c].broken}

\* a broadcast that sends to every client twice
broadcastToChatRoomTwice(box, w, room, data, excludeWs) ==
    [c \in Conns |->
        IF c \in Sent(w, BroadcastTargets(w, room, excludeWs))
        THEN box[c] \o <<data, data>>
        ELSE box[c]]

broadcastToChatRoom(box, w, room, data, excludeWs) ==
    [c \in Conns |->
        IF c \in Sent(w, BroadcastTargets(w, room, excludeWs))
        THEN Append(box[c], data)
        ELSE box[c]]

----------------------------------------------------------------------------
(* Handlers *)

\* one invocation of ws.on("message") or ws.on("close"): the frame's fields (for
\* leave and close the arguments of removeParticipant), the await it is at, the
\* joinedAt of the participant document, the message document it has built and
\* the value removeParticipant returned to it; for a message frame its
\* messageType field
Task(kind, c, room, name, pc, msg) ==
    [kind |-> kind, conn |-> c, chatRoomId |-> room, userName |-> name, pc |-> pc,
     ts |-> 0, msg |-> msg, removed |-> FALSE, messageType |-> None]

Joined(c) == ws[c].chatRoomId # None /\ ws[c].userName # None

InFlight == {t \in 1..Len(tasks) : tasks[t].pc \notin {"done", "failed", "unhandled"}}

\* a socket event is a macrotask: the microtask queue is empty, or the frame
\* belongs to the chunk being emitted
CanReceive(c) ==
    /\ ws[c].readyState = "OPEN"
    /\ Len(tasks) < MaxFrames
    /\ Cardinality(InFlight) < MaxInFlight
    /\ (runq = <<>> \/ chunk = c)

\* new Date() / Date.now: the clock has stood still or advanced since the last read
Clock == {now} \cup {now + 1 : x \in {y \in {now} : y < MaxClock}}

\* Connections, rooms and names are interchangeable, so only one representative
\* of each class of runs is explored: c1 connects first, and the first room and
\* the first name a frame mentions are r1 and alice.
UsedRooms == {tasks[t].chatRoomId : t \in 1..Len(tasks)}
UsedNames == {tasks[t].userName : t \in 1..Len(tasks)}
Representative(room, name) ==
    /\ room = "r1" \/ "r1" \in UsedRooms
    /\ name = "alice" \/ "alice" \in UsedNames

Init ==
    /\ storageKind \in StorageKinds
    /\ ws = [c \in Conns |-> [readyState |-> "CONNECTING", chatRoomId |-> None, userName |-> None,
                              broken |-> FALSE]]
    /\ participants = [r \in Rooms |-> <<>>]
    /\ messages = [r \in Rooms |-> <<>>]
    /\ tasks = <<>>
    /\ runq = <<>>
    /\ chunk = None
    /\ now = 0
    /\ inbox = [c \in Conns |-> <<>>]
    /\ response = NoResponse

\* wss.on("connection")
Connect(c) ==
    /\ ws[c].readyState = "CONNECTING"
    /\ c = "c1" \/ ws["c1"].readyState # "CONNECTING"
    /\ runq = <<>>
    /\ ws' = [ws EXCEPT ![c].readyState = "OPEN"]
    /\ chunk' = None
    /\ UNCHANGED <<response, storageKind, participants, messages, tasks, runq, now, inbox>>

\* case "join", up to `await storage.addParticipant`
RecvJoin(c, room, name) ==
    /\ CanReceive(c)
    /\ Representative(room, name)
    /\ ws' = [ws EXCEPT ![c].chatRoomId = room, ![c].userName = name]
    /\ chunk' = c
    /\ LET id == Len(tasks) + 1 IN
       IF storageKind = "mem"
       THEN \E ts \in Clock :
               /\ now' = ts
               /\ participants' = AddParticipantMem(participants, room, NewParticipant(id, name, ts))
               /\ tasks' = Append(tasks, Task("join", c, room, name, "addParticipant", NoMessage))
               /\ runq' = Append(runq, id)
       ELSE /\ tasks' = Append(tasks, Task("join", c, room, name, "deleteMany", NoMessage))
            /\ UNCHANGED <<participants, runq, now>>
    /\ UNCHANGED <<response, storageKind, messages, inbox>>

\* case "leave" / ws.on("close"), up to `await storage.removeParticipant`
StartLeave(kind, c) ==
    LET id == Len(tasks) + 1
        room == ws[c].chatRoomId
        name == ws[c].userName
    IN  IF storageKind = "mem"
        THEN /\ participants' = RemoveParticipant(participants, room, name)
             /\ tasks' = Append(tasks,
                    [Task(kind, c, room, name, "removeParticipant", NoMessage)
                        EXCEPT !.removed = Removed(participants, room, name)])
             /\ runq' = Append(runq, id)
        ELSE /\ tasks' = Append(tasks, Task(kind, c, room, name, "deleteMany", NoMessage))
             /\ UNCHANGED <<participants, runq>>

RecvLeave(c) ==
    /\ CanReceive(c)
    /\ chunk' = c
    /\ IF Joined(c)
       THEN StartLeave("leave", c)
       ELSE UNCHANGED <<participants, tasks, runq>>
    /\ UNCHANGED <<response, storageKind, ws, messages, now, inbox>>

\* the messageType of a message frame: absent, empty, or a type name
MessageTypes == {None, "", "bot"}

\* case "message", up to `await storage.createMessage`
RecvMessageOfType(c, room, name, content, mtype) ==
    /\ CanReceive(c)
    /\ Representative(room, name)
    /\ chunk' = c
    /\ \E ts \in Clock :
          LET id == Len(tasks) + 1
              m == NewMessage(id, room, name, content, mtype, ts)
          IN  /\ now' = ts
              /\ IF storageKind = "mem"
                 THEN /\ messages' = CreateMessage(messages, m)
                      /\ tasks' = Append(tasks,
                             [Task("message", c, room, name, "createMessage", m)
                                 EXCEPT !.messageType = mtype])
                      /\ runq' = Append(runq, id)
                 ELSE /\ tasks' = Append(tasks,
                             [Task("message", c, room, name, "saveMessage", m)
                                 EXCEPT !.messageType = mtype])
                      /\ UNCHANGED <<messages, runq>>
    /\ UNCHANGED <<response, storageKind, ws, participants, inbox>>

\* a message frame without messageType
RecvMessage(c, room, name, content) == RecvMessageOfType(c, room, name, content, None)

\* case "typing" broadcasting as case "message" does, to the sender as well
TypingExcludeNone(c) == None

\* the excludeWs argument of the broadcast in case "typing": the sender
TypingExclude(c) == c

\* case "typing"
RecvTyping(c, room, name) ==
    /\ CanReceive(c)
    /\ Representative(room, name)
    /\ chunk' = c
    /\ inbox' = broadcastToChatRoom(inbox, ws, room, Payload("typing", name, room, NoMessage),
                                  TypingExclude(c))
    /\ tasks' = Append(tasks, Task("typing", c, room, name, "done", NoMessage))
    /\ UNCHANGED <<response, storageKind, ws, participants, messages, runq, now>>

\* ws.on("close"): the transport is CLOSED when the handler runs
Close(c) ==
    /\ ws[c].readyState = "OPEN"
    /\ runq = <<>>
    /\ Joined(c) => Len(tasks) < MaxFrames /\ Cardinality(InFlight) < MaxInFlight
    /\ ws' = [ws EXCEPT ![c].readyState = "CLOSED"]
    /\ chunk' = None
    /\ IF Joined(c)
       THEN StartLeave("close", c)
       ELSE UNCHANGED <<participants, tasks, runq>>
    /\ UNCHANGED <<response, storageKind, messages, now, inbox>>

----------------------------------------------------------------------------
(* Resumption after an await *)

\* the join handler announcing a departure
JoinedContentAsLeft(name) == <<name, "left the chat">>

JoinedContent(name) == <<name, "joined the chat">>
LeftContent(name) == <<name, "left the chat">>

\* the system message a join, leave or close handler passes to createMessage;
\* leave and close read the connection's fields at that moment
SystemMessage(t, ts) ==
    LET k == tasks[t]
    IN  IF k.kind = "join"
        THEN NewMessage(t, k.chatRoomId, SystemUser, JoinedContent(k.userName), "system", ts)
        ELSE NewMessage(t, ws[k.conn].chatRoomId, SystemUser,
                        LeftContent(ws[k.conn].userName), "system", ts)

\* case "message" broadcasting as case "typing" does, with the sender excluded
MessageExcludeSender(c) == c

\* the excludeWs argument of the broadcast in case "message": none
MessageExclude(c) == None

\* the broadcast that ends the handler of task t
FinalBroadcast(t) ==
    LET k == tasks[t]
        c == k.conn
    IN  CASE k.kind = "join" ->
               broadcastToChatRoom(inbox, ws, k.chatRoomId,
                   Payload("userJoined", k.userName, k.chatRoomId, NoMessage), None)
          [] k.kind = "message" ->
               broadcastToChatRoom(inbox, ws, k.chatRoomId,
                   Payload("newMessage", None, None, k.msg), MessageExclude(c))
          [] k.kind = "post" -> inbox
          [] OTHER ->
               broadcastToChatRoom(inbox, ws, ws[c].chatRoomId,
                   Payload("userLeft", ws[c].userName, ws[c].chatRoomId, NoMessage), None)

\* MemStorage: the head of the microtask queue resumes after its await
Microtask ==
    /\ storageKind = "mem"
    /\ runq # <<>>
    /\ chunk' = None
    /\ LET t == Head(runq) IN
       IF tasks[t].pc = "createMessage"
       THEN /\ inbox' = FinalBroadcast(t)
            /\ tasks' = [tasks EXCEPT ![t].pc = "done"]
            /\ runq' = Tail(runq)
            /\ UNCHANGED <<messages, now>>
       ELSE \E ts \in Clock :
               /\ now' = ts
               /\ messages' = CreateMessage(messages, SystemMessage(t, ts))
               /\ tasks' = [tasks EXCEPT ![t].pc = "createMessage", ![t].msg = SystemMessage(t, ts)]
               /\ runq' = Append(Tail(runq), t)
               /\ UNCHANGED inbox
    /\ UNCHANGED <<response, storageKind, ws, participants>>

\* MongoStorage: the pending database operation of task t takes effect and
\* its handler resumes
DbReply(t) ==
    /\ storageKind = "mongo"
    /\ t \in 1..Len(tasks)
    /\ LET k == tasks[t] IN
       \/ /\ k.pc = "deleteMany"
          /\ participants' = RemoveParticipant(participants, k.chatRoomId, k.userName)
          /\ \E ts \in Clock :
                /\ now' = ts
                /\ IF k.kind = "join"
                   THEN tasks' = [tasks EXCEPT ![t].pc = "saveParticipant", ![t].ts = ts]
                   ELSE tasks' = [tasks EXCEPT ![t].pc = "saveMessage", ![t].msg = SystemMessage(t, ts),
                                               ![t].removed = Removed(participants, k.chatRoomId, k.userName)]
          /\ UNCHANGED <<messages, inbox>>
       \/ /\ k.pc = "saveParticipant"
          /\ participants' = SaveParticipant(participants, k.chatRoomId,
                                  NewParticipant(t, k.userName, k.ts))
          /\ \E ts \in Clock :
                /\ now' = ts
                /\ tasks' = [tasks EXCEPT ![t].pc = "saveMessage", ![t].msg = SystemMessage(t, ts)]
          /\ UNCHANGED <<messages, inbox>>
       \/ /\ k.pc = "saveMessage"
          /\ messages' = CreateMessage(messages, k.msg)
          /\ inbox' = FinalBroadcast(t)
          /\ tasks' = [tasks EXCEPT ![t].pc = "done"]
          /\ UNCHANGED <<participants, now>>
    /\ UNCHANGED <<response, storageKind, ws, runq, chunk>>

----------------------------------------------------------------------------
(* Decoding of inbound frames *)

\* data that JSON.parse rejects, and the JSON text null
Undecodable == [type |-> "<undecodable>", chatRoomId |-> None, userName |-> None, content |-> None]
NullFrame == [type |-> "<null>", chatRoomId |-> None, userName |-> None, content |-> None]

FrameTypes == {"join", "leave", "message", "typing", "other", None}

\* what JSON.parse can return for a frame; None is an absent (or empty) field
Frames ==
    {Undecodable, NullFrame} \cup
    [type : FrameTypes, chatRoomId : Rooms \cup {None}, userName : Names \cup {None},
     content : Contents \cup {None}]

\* case "join" testing message.chatRoomId only
DispatchJoinRoomOnly(f) ==
    IF f \in {Undecodable, NullFrame} THEN "drop"
    ELSE CASE f.type = "join" -> IF f.chatRoomId # None THEN "join" ELSE "drop"
           [] f.type = "leave" -> "leave"
           [] f.type = "message" ->
                IF f.chatRoomId # None /\ f.userName # None /\ f.content # None
                THEN "message" ELSE "drop"
           [] f.type = "typing" ->
                IF f.chatRoomId # None /\ f.userName # None THEN "typing" ELSE "drop"
           [] OTHER -> "drop"

\* the case of the switch that runs for a frame: JSON.parse throwing and
\* null.type throwing end in the catch, an unknown type matches no case, and a
\* case whose `if` fails does nothing
Dispatch(f) ==
    IF f \in {Undecodable, NullFrame} THEN "drop"
    ELSE CASE f.type = "join" ->
                IF f.chatRoomId # None /\ f.userName # None THEN "join" ELSE "drop"
           [] f.type = "leave" -> "leave"
           [] f.type = "message" ->
                IF f.chatRoomId # None /\ f.userName # None /\ f.content # None
                THEN "message" ELSE "drop"
           [] f.type = "typing" ->
                IF f.chatRoomId # None /\ f.userName # None THEN "typing" ELSE "drop"
           [] OTHER -> "drop"

\* a frame for which no case of the switch does anything
RecvDropped(c, f) ==
    /\ CanReceive(c)
    /\ Dispatch(f) = "drop"
    /\ chunk' = c
    /\ tasks' = Append(tasks, Task("drop", c, None, None, "done", NoMessage))
    /\ UNCHANGED <<response, storageKind, ws, participants, messages, runq, now, inbox>>

\* MongoStorage: the pending database operation of task t fails and the awaited
\* promise rejects.  The try/catch of ws.on("message") and of the REST route
\* logs the error and the handler ends; ws.on("close") has no try/catch, so the
\* rejection of its async handler is left unhandled.
DbFail(t) ==
    /\ storageKind = "mongo"
    /\ t \in 1..Len(tasks)
    /\ tasks[t].pc \in {"deleteMany", "saveParticipant", "saveMessage"}
    /\ Cardinality({u \in 1..Len(tasks) : tasks[u].pc \in {"failed", "unhandled"}}) < MaxFailures
    /\ tasks' = [tasks EXCEPT ![t].pc = IF tasks[t].kind = "close" THEN "unhandled" ELSE "failed"]
    /\ UNCHANGED <<response, storageKind, ws, participants, messages, runq, chunk, now, inbox>>

\* the socket of an open connection stops accepting writes (the peer is gone
\* and the close event has not been emitted yet)
SocketBreak(c) ==
    /\ ws[c].readyState = "OPEN"
    /\ Joined(c)
    /\ ~ws[c].broken
    /\ Cardinality({d \in Conns : ws[d].broken}) < MaxBroken
    /\ ws' = [ws EXCEPT ![c].broken = TRUE]
    /\ UNCHANGED <<response, storageKind, participants, messages, tasks, runq, chunk, now, inbox>>

----------------------------------------------------------------------------
(* REST routes of the message log *)

\* an HTTP request is a macrotask of its own
CanRequest ==
    /\ runq = <<>>
    /\ Len(tasks) < MaxFrames
    /\ Cardinality(InFlight) < MaxInFlight

\* app.post("/api/chatrooms/:id/messages"): createMessage, then the HTTP answer
PostMessage(room, name, content) ==
    /\ CanRequest
    /\ Representative(room, name)
    /\ chunk' = None
    /\ \E ts \in Clock :
          LET id == Len(tasks) + 1
              m == NewMessage(id, room, name, content, None, ts)
          IN  /\ now' = ts
              /\ IF storageKind = "mem"
                 THEN /\ messages' = CreateMessage(messages, m)
                      /\ tasks' = Append(tasks, Task("post", None, room, name, "done", m))
                 ELSE /\ tasks' = Append(tasks, Task("post", None, room, name, "saveMessage", m))
                      /\ UNCHANGED messages
    /\ UNCHANGED <<response, storageKind, ws, participants, runq, inbox>>

\* app.get("/api/chatrooms/:id/messages") with ?limit=
GetMessages(room, limit) ==
    /\ runq = <<>>
    /\ response' = [chatRoomId |-> room, limit |-> limit, messages |-> getMessages(room, limit)]
    /\ UNCHANGED <<storageKind, ws, participants, messages, tasks, runq, chunk, now, inbox>>

\* MongoStorage: the message.save() of a POST takes effect
PostSaved(t) ==
    /\ t \in 1..Len(tasks)
    /\ tasks[t].kind = "post"
    /\ DbReply(t)

Next ==
    \/ \E c \in Conns : Connect(c)
    \/ \E c \in Conns, r \in Rooms, n \in Names : RecvJoin(c, r, n)
    \/ \E c \in Conns : RecvLeave(c)
    \/ \E c \in Conns, r \in Rooms, n \in Names, x \in Contents : RecvMessage(c, r, n, x)
    \/ \E c \in Conns, r \in Rooms, n \in Names : RecvTyping(c, r, n)
    \/ \E c \in Conns : Close(c)
    \/ Microtask
    \/ \E t \in 1..MaxFrames : DbReply(t)
    \/ \E r \in Rooms, n \in Names, x \in Contents : PostMessage(r, n, x)

Spec == Init /\ [][Next]_vars

\* the server with a database whose operations may fail
FailNext ==
    \/ Next
    \/ \E t \in 1..MaxFrames : DbFail(t)

FailSpec == Init /\ [][FailNext]_vars

\* the broadcasting handlers with sockets whose writes may fail
SendFailNext ==
    \/ \E c \in Conns : Connect(c)
    \/ \E c \in Conns, r \in Rooms, n \in Names : RecvJoin(c, r, n)
    \/ \E c \in Conns, r \in Rooms, n \in Names, x \in Contents : RecvMessage(c, r, n, x)
    \/ \E c \in Conns, r \in Rooms, n \in Names : RecvTyping(c, r, n)
    \/ Microtask
    \/ \E t \in 1..MaxFrames : DbReply(t)
    \/ \E c \in Conns : SocketBreak(c)

SendFailSpec == Init /\ [][SendFailNext]_vars

\* joins and the frames the handler drops
FrameNext ==
    \/ \E c \in Conns : Connect(c)
    \/ \E c \in Conns, r \in Rooms, n \in Names : RecvJoin(c, r, n)
    \/ \E c \in Conns, f \in Frames : RecvDropped(c, f)
    \/ Microtask
    \/ \E t \in 1..MaxFrames : DbReply(t)

FrameSpec == Init /\ [][FrameNext]_vars

\* joins and message frames of every messageType
TypeNext ==
    \/ \E c \in Conns : Connect(c)
    \/ \E c \in Conns, r \in Rooms, n \in Names : RecvJoin(c, r, n)
    \/ \E c \in Conns, r \in Rooms, n \in Names, x \in Contents, m \in MessageTypes :
          RecvMessageOfType(c, r, n, x, m)
    \/ Microtask
    \/ \E t \in 1..MaxFrames : DbReply(t)

TypeSpec == Init /\ [][TypeNext]_vars

\* the REST routes alone: the log is written by POST and read by GET
RestNext ==
    \/ \E r \in Rooms, n \in Names, x \in Contents : PostMessage(r, n, x)
    \/ \E t \in 1..MaxFrames : PostSaved(t)
    \/ \E r \in Rooms, l \in 0..MaxLimit : GetMessages(r, l)

RestSpec == Init /\ [][RestNext]_vars

\* a handler suspended at an await is resumed: the microtask queue is drained,
\* and every pending database operation is answered
FairSpec ==
    /\ Spec
    /\ WF_vars(Microtask)
    /\ \A t \in 1..MaxFrames : WF_vars(DbReply(t))

----------------------------------------------------------------------------
(* Vocabulary of the properties *)

\* the room a payload was broadcast for
RoomOf(p) == IF p.type = "newMessage" THEN p.message.chatRoomId ELSE p.chatRoomId

\* the payload connection c receives in this step, if it receives one
Receives(c) == Len(inbox'[c]) = Len(inbox[c]) + 1
Received(c) == inbox'[c][Len(inbox'[c])]

\* handler invocation t was issued by connection c and is of one of the kinds
IsTaskIn(ts, t, c, kinds) ==
    t \in 1..Len(ts) /\ ts[t].conn = c /\ ts[t].kind \in kinds
IsTask(t, c, kinds) == IsTaskIn(tasks, t, c, kinds)

\* the position of the record with this id in the room's log (0: not in it)
PosInLog(room, id) ==
    IF \E i \in 1..Len(Log(room)) : Log(room)[i].id = id
    THEN CHOOSE i \in 1..Len(Log(room)) : Log(room)[i].id = id
    ELSE 0

----------------------------------------------------------------------------
(* C1  Room isolation: a payload broadcast for room A is delivered only to
   connections that are associated with room A at that moment, never to a
   connection associated with another room. *)
RoomIsolation ==
    [][\A c \in Conns : Receives(c) => RoomOf(Received(c)) = ws'[c].chatRoomId]_vars

\* a message for one room has been delivered there while another connection was
\* open in a different room and has received nothing for the first room
RoomIsolationWitness ==
    \E c, d \in Conns, t \in 1..Len(tasks) :
        /\ c # d
        /\ tasks[t].kind = "message" /\ tasks[t].pc = "done"
        /\ \E i \in 1..Len(inbox[c]) :
              inbox[c][i].type = "newMessage" /\ inbox[c][i].message.id = t
        /\ ws[d].readyState = "OPEN"
        /\ ws[d].chatRoomId \notin {None, tasks[t].chatRoomId}
        /\ \E u \in 1..(t - 1) : IsTask(u, d, {"join"}) /\ tasks[u].pc = "done"
        /\ \A i \in 1..Len(inbox[d]) : RoomOf(inbox[d][i]) # tasks[t].chatRoomId

(* C2  Per-room persisted order: the records that message handlers publish to
   one room stand in that room's log in the order the handlers were invoked. *)
PersistedOrderIsIssueOrder ==
    \A r \in Rooms : \A i, j \in 1..Len(Log(r)) :
        (/\ i < j
         /\ IsTask(Log(r)[i].id, tasks[Log(r)[i].id].conn, {"message"})
         /\ IsTask(Log(r)[j].id, tasks[Log(r)[j].id].conn, {"message"}))
        => Log(r)[i].id < Log(r)[j].id

(* C3  Per-room delivery order: every connection receives the newMessage
   payloads of a room in the order of the room's persisted log. *)
DeliveryFollowsLogOrder ==
    \A c \in Conns : \A i, j \in 1..Len(inbox[c]) :
        (/\ i < j
         /\ inbox[c][i].type = "newMessage"
         /\ inbox[c][j].type = "newMessage"
         /\ RoomOf(inbox[c][i]) = RoomOf(inbox[c][j]))
        => PosInLog(RoomOf(inbox[c][i]), inbox[c][i].message.id)
              < PosInLog(RoomOf(inbox[c][j]), inbox[c][j].message.id)

\* handler invocation t runs in this step: it is invoked, or it resumes after an await
HandlerStep(t) ==
    \/ t = Len(tasks') /\ Len(tasks') = Len(tasks) + 1
    \/ t \in 1..Len(tasks) /\ tasks'[t].pc # tasks[t].pc

\* handler invocation t performs its final broadcast in this step
Finishes(t) == t \in 1..Len(tasks) /\ tasks[t].pc # "done" /\ tasks'[t].pc = "done"

\* connection c has a join frame among the invocations from..to
JoinBetweenIn(ts, c, from, to) == \E u \in from..to : IsTaskIn(ts, u, c, {"join"})
JoinBetween(c, from, to) == JoinBetweenIn(tasks, c, from, to)

\* handler invocation t has appended a record to the store
Appended(t) == \E r \in Rooms : \E i \in 1..Len(messages[r]) : messages[r][i].id = t

ActiveRecords(room, name) ==
    {i \in 1..Len(participants[room]) :
        participants[room][i].userName = name /\ participants[room][i].isActive}

(* C4  Leave no-op: after an explicit leave, a second leave or the transport
   close of the same connection (no join in between) appends no further "left
   the chat" message and broadcasts no further userLeft. *)
LeaveIsNoOp ==
    \A c \in Conns : \A t1, t2 \in 1..Len(tasks) :
        (/\ t1 < t2
         /\ IsTask(t1, c, {"leave"})
         /\ IsTask(t2, c, {"leave", "close"})
         /\ ~JoinBetween(c, t1, t2))
        => ~Appended(t2) /\ tasks[t2].pc # "done"

(* C5  Join idempotence: once two joins of one connection for the same
   (room, name), with no leave or close anywhere, have both had their participant
   added, the store holds exactly one active record for that (room, name), so the
   second join has not changed the room's active participant count. *)
JoinIdempotentCount ==
    \A c \in Conns : \A t1, t2 \in 1..Len(tasks) :
        (/\ t1 < t2
         /\ IsTask(t1, c, {"join"})
         /\ IsTask(t2, c, {"join"})
         /\ tasks[t1].chatRoomId = tasks[t2].chatRoomId
         /\ tasks[t1].userName = tasks[t2].userName
         /\ \A u \in 1..Len(tasks) :
               /\ tasks[u].kind \notin {"leave", "close"}
               /\ tasks[u].kind = "join" => tasks[u].pc \notin {"deleteMany", "saveParticipant"})
        => /\ Cardinality(ActiveRecords(tasks[t1].chatRoomId, tasks[t1].userName)) = 1
           /\ getActiveParticipantCount(tasks[t1].chatRoomId)
                 = Cardinality({tasks[u].userName : u \in
                      {v \in 1..Len(tasks) : tasks[v].kind = "join"
                                             /\ tasks[v].chatRoomId = tasks[t1].chatRoomId}})

(* C6  Presence uniqueness: in every reachable state there is at most one
   active participant record for every (room, name). *)
PresenceUnique ==
    \A r \in Rooms, n \in Names : Cardinality(ActiveRecords(r, n)) <= 1

(* C7  A join frame on a connection that is associated with a different room
   is rejected: it changes neither the connection's association nor the
   participant records nor the message logs. *)
JoinOtherRoomRejected ==
    [][\A c \in Conns :
          (/\ HandlerStep(Len(tasks'))
           /\ Len(tasks') = Len(tasks) + 1
           /\ IsTaskIn(tasks', Len(tasks'), c, {"join"})
           /\ ws[c].chatRoomId \notin {None, tasks'[Len(tasks')].chatRoomId})
          => /\ ws'[c] = ws[c]
             /\ participants' = participants
             /\ messages' = messages]_vars

(* C8  A message, typing or leave frame of a connection that has never joined
   is ignored: no step of its handler appends to the store, changes a
   participant record or delivers a payload. *)
UnjoinedFramesIgnored ==
    [][\A t \in 1..Len(tasks') :
          (/\ HandlerStep(t)
           /\ tasks'[t].kind \in {"message", "typing", "leave"}
           /\ ~JoinBetweenIn(tasks', tasks'[t].conn, 1, t))
          => /\ messages' = messages
             /\ participants' = participants
             /\ inbox' = inbox]_vars

(* C9  After an explicit leave has been processed (and until the connection
   joins again) the connection has no room/name association and receives no
   payload. *)
LeaveClearsAssociation ==
    [][\A c \in Conns :
          (\E t \in 1..Len(tasks) :
              /\ IsTask(t, c, {"leave"})
              /\ tasks[t].pc = "done"
              /\ ~JoinBetweenIn(tasks', c, t, Len(tasks')))
          => /\ ws[c].chatRoomId = None
             /\ ws[c].userName = None
             /\ inbox'[c] = inbox[c]]_vars

(* C10 (as stated)  The newMessage of a message frame sent by a member of the
   room is delivered to every other open member and not to the sender. *)
MessageToOthersOnly ==
    [][\A t \in 1..Len(tasks) :
          (/\ Finishes(t)
           /\ tasks[t].kind = "message"
           /\ ws[tasks[t].conn].chatRoomId = tasks[t].chatRoomId)
          => \A d \in Conns :
                inbox'[d] =
                    IF /\ d # tasks[t].conn
                       /\ ws[d].readyState = "OPEN"
                       /\ ws[d].chatRoomId = tasks[t].chatRoomId
                    THEN Append(inbox[d], Payload("newMessage", None, None, tasks[t].msg))
                    ELSE inbox[d]]_vars

(* C10 (amended)  Once the record of a message frame for room R is stored, the
   newMessage carrying that stored record is delivered to every connection that
   is open and associated with R at that moment, the sending connection
   included, and to no other connection. *)
MessageToAllMembers ==
    [][\A t \in 1..Len(tasks) :
          (Finishes(t) /\ tasks[t].kind = "message")
          => /\ \E i \in 1..Len(messages'[tasks[t].chatRoomId]) :
                   messages'[tasks[t].chatRoomId][i] = tasks[t].msg
             /\ \A d \in Conns :
                   inbox'[d] =
                       IF ws[d].readyState = "OPEN" /\ ws[d].chatRoomId = tasks[t].chatRoomId
                       THEN Append(inbox[d], Payload("newMessage", None, None, tasks[t].msg))
                       ELSE inbox[d]]_vars

\* a member's message has been delivered to the sender and to another member
MessageToAllMembersWitness ==
    \E t \in 1..Len(tasks) : \E d \in Conns :
        /\ tasks[t].kind = "message" /\ tasks[t].pc = "done"
        /\ d # tasks[t].conn
        /\ \A c \in {d, tasks[t].conn} :
              /\ \E u \in 1..(t - 1) :
                    IsTask(u, c, {"join"}) /\ tasks[u].chatRoomId = tasks[t].chatRoomId
              /\ ws[c].chatRoomId = tasks[t].chatRoomId
              /\ \E i \in 1..Len(inbox[c]) :
                    inbox[c][i].type = "newMessage" /\ inbox[c][i].message = tasks[t].msg

\* handler invocation t is invoked in this step
Invoked(t) == t = Len(tasks') /\ Len(tasks') = Len(tasks) + 1

(* C11  A typing frame of a connection for room R delivers typing{userName,
   chatRoomId} to every other open connection associated with R and to nobody
   else, never to the sender, and leaves every room's message log and every
   participant record unchanged. *)
TypingToOthersOnly ==
    [][\A t \in 1..Len(tasks') :
          (Invoked(t) /\ tasks'[t].kind = "typing")
          => /\ \A d \in Conns :
                   inbox'[d] =
                       IF /\ d # tasks'[t].conn
                          /\ ws[d].readyState = "OPEN"
                          /\ ws[d].chatRoomId = tasks'[t].chatRoomId
                       THEN Append(inbox[d], Payload("typing", tasks'[t].userName,
                                                     tasks'[t].chatRoomId, NoMessage))
                       ELSE inbox[d]
             /\ messages' = messages
             /\ participants' = participants]_vars

\* a member of a room has sent typing while another member was present: the other
\* member holds the payload, the sender holds no typing payload
TypingToOthersOnlyWitness ==
    \E t \in 1..Len(tasks) : \E d \in Conns :
        /\ tasks[t].kind = "typing"
        /\ d # tasks[t].conn
        /\ \A c \in {d, tasks[t].conn} :
              /\ ws[c].chatRoomId = tasks[t].chatRoomId
              /\ \E u \in 1..(t - 1) :
                    IsTask(u, c, {"join"}) /\ tasks[u].chatRoomId = tasks[t].chatRoomId
        /\ \E i \in 1..Len(inbox[d]) :
              inbox[d][i] = Payload("typing", tasks[t].userName, tasks[t].chatRoomId, NoMessage)
        /\ \A i \in 1..Len(inbox[tasks[t].conn]) : inbox[tasks[t].conn][i].type # "typing"

\* invocation t is the close of a connection that has not sent an explicit
\* leave since it last joined
CloseWithoutLeave(t) ==
    /\ t \in 1..Len(tasks)
    /\ tasks[t].kind = "close"
    /\ \A u \in 1..(t - 1) :
          IsTask(u, tasks[t].conn, {"leave"}) => JoinBetween(tasks[t].conn, u, t)

\* the records invocation t has put into the room's log
RecordsOf(t, room) == {i \in 1..Len(messages[room]) : messages[room][i].id = t}

(* C12  When the transport of a joined connection closes without an explicit
   leave, the close handler eventually finishes; when it has finished, the
   participant record of its (room, name) is gone (unless that name joined the
   room again after the close), exactly one system message "{name} left the
   chat" stands in the room's log for it, and its last step delivers
   userLeft{userName, chatRoomId} to every open member of the room. *)
CloseSynthesizesLeave ==
    /\ [](\A t \in 1..Len(tasks) :
            (CloseWithoutLeave(t) /\ tasks[t].pc = "done")
            => /\ (\A u \in (t + 1)..Len(tasks) :
                      ~(/\ tasks[u].kind = "join"
                        /\ tasks[u].chatRoomId = tasks[t].chatRoomId
                        /\ tasks[u].userName = tasks[t].userName))
                  => ActiveRecords(tasks[t].chatRoomId, tasks[t].userName) = {}
               /\ Cardinality(RecordsOf(t, tasks[t].chatRoomId)) = 1
               /\ \A i \in RecordsOf(t, tasks[t].chatRoomId) :
                     /\ messages[tasks[t].chatRoomId][i].content = LeftContent(tasks[t].userName)
                     /\ messages[tasks[t].chatRoomId][i].messageType = "system")
    /\ [][\A t \in 1..Len(tasks) :
            (CloseWithoutLeave(t) /\ Finishes(t))
            => \A d \in Conns :
                  (ws[d].readyState = "OPEN" /\ ws[d].chatRoomId = tasks[t].chatRoomId)
                  => inbox'[d] = Append(inbox[d], Payload("userLeft", tasks[t].userName,
                                                         tasks[t].chatRoomId, NoMessage))]_vars
    /\ \A t \in 1..MaxFrames :
          CloseWithoutLeave(t) ~> (t \in 1..Len(tasks) /\ tasks[t].pc = "done")

(* C13  Every join(room, name) the server handles puts exactly one system
   message "{name} joined the chat" of type "system" into that room's log, and
   its last step delivers one userJoined{userName, chatRoomId} to every
   connection that is open and associated with the room at that moment, the
   joining connection not excepted, whether or not a participant record for
   (room, name) existed before. *)
JoinAnnouncedOnce ==
    /\ [](\A t \in 1..Len(tasks) :
            tasks[t].kind = "join"
            => /\ Cardinality(RecordsOf(t, tasks[t].chatRoomId)) <= 1
               /\ \A r \in Rooms \ {tasks[t].chatRoomId} : RecordsOf(t, r) = {}
               /\ tasks[t].pc = "done"
                     => \E i \in RecordsOf(t, tasks[t].chatRoomId) :
                           /\ messages[tasks[t].chatRoomId][i].content
                                 = <<tasks[t].userName, "joined the chat">>
                           /\ messages[tasks[t].chatRoomId][i].userName = "System"
                           /\ messages[tasks[t].chatRoomId][i].messageType = "system")
    /\ [][\A t \in 1..Len(tasks) :
            (Finishes(t) /\ tasks[t].kind = "join")
            => \A d \in Conns :
                  inbox'[d] =
                      IF ws[d].readyState = "OPEN" /\ ws[d].chatRoomId = tasks[t].chatRoomId
                      THEN Append(inbox[d], Payload("userJoined", tasks[t].userName,
                                                    tasks[t].chatRoomId, NoMessage))
                      ELSE inbox[d]]_vars

\* a second join for a (room, name) that already had a participant record has
\* finished: its system message is stored, and the joining connection and the
\* other member have both received its userJoined after the first one
JoinAnnouncedOnceWitness ==
    \E t, u \in 1..Len(tasks) :
        /\ u < t
        /\ tasks[u].kind = "join" /\ tasks[t].kind = "join"
        /\ tasks[u].pc = "done" /\ tasks[t].pc = "done"
        /\ tasks[u].conn # tasks[t].conn
        /\ tasks[u].chatRoomId = tasks[t].chatRoomId
        /\ tasks[u].userName = tasks[t].userName
        /\ Cardinality(RecordsOf(t, tasks[t].chatRoomId)) = 1
        /\ \A c \in {tasks[u].conn, tasks[t].conn} :
              /\ ws[c].chatRoomId = tasks[t].chatRoomId
              /\ inbox[c] # <<>>
              /\ inbox[c][Len(inbox[c])] = Payload("userJoined", tasks[t].userName,
                                                    tasks[t].chatRoomId, NoMessage)
        /\ Len(inbox[tasks[u].conn]) = 2
        /\ Len(inbox[tasks[t].conn]) = 1

\* this step answers a history request
Answered == response' # response

(* C14  History bound: for every room and every limit, limit = 0 included,
   getMessages(room, limit) returns at most limit entries. *)
HistoryBound == Len(response.messages) <= response.limit

(* C15  History is the most recent suffix: for a log of n messages and a limit
   with 0 < limit <= n, getMessages(room, limit) returns exactly the last limit
   entries of the log, oldest first, with either storage. *)
HistoryIsSuffix ==
    [][(/\ Answered
        /\ 0 < response'.limit
        /\ response'.limit <= Len(Log(response'.chatRoomId)))
       => response'.messages =
             SubSeq(Log(response'.chatRoomId),
                    Len(Log(response'.chatRoomId)) - response'.limit + 1,
                    Len(Log(response'.chatRoomId)))]_vars

LeaveWithoutRecordIsNoOp ==
    \A t \in 1..Len(tasks) :
        (/\ tasks[t].kind \in {"leave", "close"}
         /\ tasks[t].pc # "deleteMany"
         /\ ~tasks[t].removed)
        => ~Appended(t) /\ tasks[t].pc # "done"

\* handler invocation t publishes a record through the WebSocket path
Publishes(t) == tasks[t].kind \in {"join", "leave", "close", "message"}

\* the record of invocation t is in the log of its room after this step
PersistedAfter(t) ==
    \E i \in 1..Len(messages'[tasks[t].msg.chatRoomId]) :
        messages'[tasks[t].msg.chatRoomId][i] = tasks[t].msg

\* this step delivers payload p to exactly the open connections associated with
\* the room p is for
DeliveredToMembers(p) ==
    \A d \in Conns :
        inbox'[d] = IF ws[d].readyState = "OPEN" /\ ws[d].chatRoomId = RoomOf(p)
                    THEN Append(inbox[d], p)
                    ELSE inbox[d]

(* C18 (as stated)  Every record appended through the WebSocket path, user
   message or synthesized join/leave system message, is persisted first and then
   delivered as the stored record, with its id and timestamp, to every member
   of the room. *)
PublishDeliversStoredRecord ==
    [][\A t \in 1..Len(tasks) :
          (Finishes(t) /\ Publishes(t))
          => /\ PersistedAfter(t)
             /\ DeliveredToMembers(Payload("newMessage", None, None, tasks[t].msg))]_vars

(* C18 (amended)  Every record appended through the WebSocket path is
   persisted before its handler delivers anything.  A user message is then
   delivered as the stored record, with its id and timestamp, in a newMessage;
   a join or leave system message is not delivered as a record: the handler
   delivers userJoined / userLeft {userName, chatRoomId} instead.  Either
   payload goes to every connection open and associated with the payload's room
   at that moment, and to no other. *)
PublishPersistsThenDelivers ==
    [][\A t \in 1..Len(tasks) :
          (Finishes(t) /\ Publishes(t))
          => /\ PersistedAfter(t)
             /\ tasks[t].msg.id = t
             /\ DeliveredToMembers(
                   CASE tasks[t].kind = "message" ->
                          Payload("newMessage", None, None, tasks[t].msg)
                     [] tasks[t].kind = "join" ->
                          Payload("userJoined", tasks[t].userName, tasks[t].chatRoomId, NoMessage)
                     [] OTHER ->
                          Payload("userLeft", ws[tasks[t].conn].userName,
                                  ws[tasks[t].conn].chatRoomId, NoMessage))]_vars

\* one connection has joined, sent a message and left, all three handlers have
\* finished: the three records are stored and it has received userJoined, the
\* newMessage with the stored record, and userLeft
PublishPersistsThenDeliversWitness ==
    \E c \in Conns : \E tj, tm, tl \in 1..Len(tasks) :
        /\ tj < tm /\ tm < tl
        /\ IsTask(tj, c, {"join"}) /\ IsTask(tm, c, {"message"}) /\ IsTask(tl, c, {"leave"})
        /\ \A t \in {tj, tm, tl} : tasks[t].pc = "done" /\ Appended(t)
        /\ Len(inbox[c]) = 3
        /\ inbox[c][1].type = "userJoined"
        /\ inbox[c][2] = Payload("newMessage", None, None, tasks[tm].msg)
        /\ inbox[c][3].type = "userLeft"

\* handler invocation t completes in this step
BecomesDone(t) ==
    /\ t \in 1..Len(tasks')
    /\ tasks'[t].pc = "done"
    /\ t \in 1..Len(tasks) => tasks[t].pc # "done"

(* C19  Messages are created only by the persist-then-fan-out path: every
   operation that appends a record to a room's log also broadcasts to the
   room's current members, so when it completes every open connection
   associated with that room receives a payload for the room. *)
NoAppendWithoutBroadcast ==
    [][\A t \in 1..Len(tasks') :
          (/\ BecomesDone(t)
           /\ tasks'[t].msg.chatRoomId \in Rooms
           /\ \E i \in 1..Len(messages'[tasks'[t].msg.chatRoomId]) :
                 messages'[tasks'[t].msg.chatRoomId][i].id = t)
          => \A d \in Conns :
                (ws[d].readyState = "OPEN" /\ ws[d].chatRoomId = tasks'[t].msg.chatRoomId)
                => Receives(d) /\ RoomOf(Received(d)) = tasks'[t].msg.chatRoomId]_vars

IsPrefix(a, b) == Len(a) <= Len(b) /\ SubSeq(b, 1, Len(a)) = a

\* this step belongs to a WebSocket handler (join, leave, message, typing, close)
WebSocketStep == ~\E t \in 1..Len(tasks') : BecomesDone(t) /\ tasks'[t].kind = "post"

(* C20  Append-only log: under every join, leave, message, typing and close
   operation each room's message log only grows at its end: the log before a
   step is a prefix of the log after it. *)
AppendOnlyLog ==
    [][WebSocketStep => \A r \in Rooms : IsPrefix(Log(r), Log(r)')]_vars

\* a database operation of handler invocation t fails in this step
Fails(t) ==
    /\ t \in 1..Len(tasks)
    /\ tasks[t].pc \notin {"failed", "unhandled"}
    /\ tasks'[t].pc \in {"failed", "unhandled"}

(* C21  Persistence failure aborts the publish and is caught: when a store
   operation fails while a join, leave, message or transport close is handled,
   the step delivers no payload to any connection, the handler delivers none
   later, and the failure is caught in every handler, the close handler
   included: no rejection is ever left unhandled. *)
PersistFailureAborts ==
    /\ [](\A t \in 1..Len(tasks) : tasks[t].pc # "unhandled")
    /\ [][(\E t \in 1..Len(tasks) : Fails(t)) => inbox' = inbox]_vars
    /\ [][\A t \in 1..Len(tasks) :
            tasks[t].pc \in {"failed", "unhandled"} => tasks'[t].pc = tasks[t].pc]_vars

(* C22  Delivery-error isolation: when the send to one member connection fails
   during the broadcast of a join or a message, the payload is still delivered
   to every other open member of the room whose socket accepts it, and the
   publish does not fail: the handler completes and its record stays stored. *)
DeliveryErrorIsolated ==
    [][\A t \in 1..Len(tasks) :
          (Finishes(t) /\ tasks[t].kind \in {"join", "message"})
          => /\ PersistedAfter(t)
             /\ \A d \in Conns :
                   (/\ ws[d].readyState = "OPEN"
                    /\ ws[d].chatRoomId = tasks[t].chatRoomId
                    /\ ~ws[d].broken)
                   => /\ Receives(d)
                      /\ Received(d) \in
                            {Payload("newMessage", None, None, tasks[t].msg),
                             Payload("userJoined", tasks[t].userName, tasks[t].chatRoomId,
                                     NoMessage)}]_vars

\* a message was broadcast in a room with two members after the socket of one
\* of them had stopped accepting writes: that one has not got the payload, the
\* other one has, and the record is stored
DeliveryErrorIsolatedWitness ==
    \E t \in 1..Len(tasks) : \E c, d \in Conns :
        /\ c # d
        /\ tasks[t].kind = "message" /\ tasks[t].pc = "done" /\ Appended(t)
        /\ ws[c].broken /\ ~ws[d].broken
        /\ \A e \in {c, d} :
              /\ ws[e].readyState = "OPEN"
              /\ ws[e].chatRoomId = tasks[t].chatRoomId
              /\ \E u \in 1..(t - 1) : IsTask(u, e, {"join"}) /\ tasks[u].pc = "done"
        /\ \A i \in 1..Len(inbox[c]) : inbox[c][i].type # "newMessage"
        /\ \E i \in 1..Len(inbox[d]) :
              inbox[d][i] = Payload("newMessage", None, None, tasks[t].msg)

\* a frame that cannot be decoded, or whose type is not one of the four, or
\* that lacks a field its type requires
Malformed(f) ==
    \/ f \in {Undecodable, NullFrame}
    \/ f.type \notin {"join", "leave", "message", "typing"}
    \/ f.type \in {"join", "typing"} /\ (f.chatRoomId = None \/ f.userName = None)
    \/ f.type = "message" /\ (f.chatRoomId = None \/ f.userName = None \/ f.content = None)

(* C23  Malformed frames do not change state: a frame that is undecodable, of
   an unknown type, or missing a required field of its type runs no case of
   the handler, and handling it leaves every connection's association and
   readyState, all participant records and all message logs unchanged and
   delivers nothing. *)
MalformedFramesDropped ==
    /\ [](\A f \in Frames : Malformed(f) => Dispatch(f) = "drop")
    /\ [][\A t \in 1..Len(tasks') :
            (Invoked(t) /\ tasks'[t].kind = "drop")
            => /\ ws' = ws
               /\ participants' = participants
               /\ messages' = messages
               /\ inbox' = inbox]_vars

\* a connection that has joined has then sent a frame that was dropped: it is
\* still open and associated with its room, and the room's record and log are
\* the ones the join left
MalformedFramesDroppedWitness ==
    \E c \in Conns : \E t, u \in 1..Len(tasks) :
        /\ u < t
        /\ IsTask(u, c, {"join"}) /\ tasks[u].pc = "done"
        /\ IsTask(t, c, {"drop"})
        /\ ws[c].readyState = "OPEN"
        /\ ws[c].chatRoomId = tasks[u].chatRoomId
        /\ Cardinality(ActiveRecords(tasks[u].chatRoomId, tasks[u].userName)) = 1
        /\ Len(messages[tasks[u].chatRoomId]) = 1
        /\ Len(inbox[c]) = 1

(* C24  A message published by a joined connection goes to the connection's
   own room: every step of the handler of a message frame from a connection
   that is associated with a room appends only to that room's log and delivers
   only to connections associated with that room. *)
MessageGoesToOwnRoom ==
    [][\A t \in 1..Len(tasks') :
          (/\ HandlerStep(t)
           /\ tasks'[t].kind = "message"
           /\ ws[tasks'[t].conn].chatRoomId # None)
          => /\ \A r \in Rooms \ {ws[tasks'[t].conn].chatRoomId} : messages'[r] = messages[r]
             /\ \A d \in Conns :
                   Receives(d) => ws[d].chatRoomId = ws[tasks'[t].conn].chatRoomId]_vars

(* C25  At-most-once delivery: for every stored message record and every
   connection, the newMessage carrying that record is delivered to that
   connection at most once. *)
AtMostOnceDelivery ==
    \A c \in Conns : \A i, j \in 1..Len(inbox[c]) :
        (/\ i < j
         /\ inbox[c][i].type = "newMessage"
         /\ inbox[c][j].type = "newMessage")
        => inbox[c][i].message.id # inbox[c][j].message.id

\* two messages have been broadcast in the room of a member: the member holds
\* each of the two records exactly once
AtMostOnceDeliveryWitness ==
    \E t, u \in 1..Len(tasks) :
        /\ t < u
        /\ tasks[t].kind = "message" /\ tasks[u].kind = "message"
        /\ tasks[t].pc = "done" /\ tasks[u].pc = "done"
        /\ \E c \in Conns : \A v \in {t, u} :
              Cardinality({i \in 1..Len(inbox[c]) :
                              inbox[c][i] = Payload("newMessage", None, None, tasks[v].msg)}) = 1

\* connection d joined the room before handler invocation t was invoked and has
\* sent no join since
MemberSince(d, t, room) ==
    \E u \in 1..(t - 1) :
        /\ IsTask(u, d, {"join"})
        /\ tasks[u].chatRoomId = room
        /\ \A v \in (u + 1)..Len(tasks) : ~IsTask(v, d, {"join"})

(* C26  Complete fan-out: every connection that is open and associated with
   room R from the moment a message handler for R is invoked until that
   handler's broadcast happens receives, in the broadcast step, the newMessage
   with that handler's record. *)
CompleteFanOut ==
    [][\A t \in 1..Len(tasks) :
          (Finishes(t) /\ tasks[t].kind = "message")
          => \A d \in Conns :
                (ws[d].readyState = "OPEN" /\ MemberSince(d, t, tasks[t].chatRoomId))
                => inbox'[d] = Append(inbox[d],
                                      Payload("newMessage", None, None, tasks[t].msg))]_vars

\* two connections were members of a room before one of them sent a message
\* and stayed members: both hold the newMessage with the record
CompleteFanOutWitness ==
    \E t \in 1..Len(tasks) :
        /\ tasks[t].kind = "message" /\ tasks[t].pc = "done"
        /\ \A d \in Conns :
              /\ ws[d].readyState = "OPEN"
              /\ MemberSince(d, t, tasks[t].chatRoomId)
              /\ \E i \in 1..Len(inbox[d]) :
                    inbox[d][i] = Payload("newMessage", None, None, tasks[t].msg)

\* addParticipant of join invocation t builds its participant record in this step
BuildsParticipant(t) ==
    /\ tasks'[t].kind = "join"
    /\ IF storageKind = "mem"
       THEN Invoked(t)
       ELSE t \in 1..Len(tasks) /\ tasks[t].pc = "deleteMany"
                                /\ tasks'[t].pc = "saveParticipant"

\* the joinedAt of the record that step builds
BuiltJoinedAt(t) ==
    IF storageKind = "mem"
    THEN participants'[tasks'[t].chatRoomId][Len(participants'[tasks'[t].chatRoomId])].joinedAt
    ELSE tasks'[t].ts

(* C27  Rejoin keeps the join timestamp: when a join is processed for a
   (room, name) that already has an active participant record, the record of
   (room, name) after the join carries the join timestamp the record had
   before. *)
RejoinKeepsJoinedAt ==
    [][\A t \in 1..Len(tasks') :
          BuildsParticipant(t)
          => \A i \in ActiveRecords(tasks'[t].chatRoomId, tasks'[t].userName) :
                participants[tasks'[t].chatRoomId][i].joinedAt = BuiltJoinedAt(t)]_vars

(* C28  Timestamps follow log order: within each room's message log the
   record timestamps are non-decreasing in log position, whatever the
   interleaving of the createMessage calls. *)
TimestampsFollowLogOrder ==
    \A r \in Rooms : \A i, j \in 1..Len(Log(r)) :
        i < j => Log(r)[i].timestamp <= Log(r)[j].timestamp

\* two createMessage calls for one room overlapped and the later-stamped record
\* was saved first; the log presents the two in timestamp order
TimestampsFollowLogOrderWitness ==
    \E r \in Rooms :
        /\ Len(messages[r]) >= 2
        /\ messages[r][1].timestamp > messages[r][2].timestamp
        /\ Log(r)[1] = messages[r][2]
        /\ Log(r)[1].timestamp < Log(r)[2].timestamp

\* the record of message invocation t, wherever it is stored or has been
\* delivered, has this messageType
PublishedWithType(t, mtype) ==
    /\ \A r \in Rooms : \A i \in RecordsOf(t, r) : messages[r][i].messageType = mtype
    /\ \A c \in Conns : \A i \in 1..Len(inbox[c]) :
          (inbox[c][i].type = "newMessage" /\ inbox[c][i].message.id = t)
          => inbox[c][i].message.messageType = mtype

(* C29 (as stated)  Message type default: a message frame without messageType
   is persisted and delivered with messageType "user"; a frame with messageType
   present is persisted with exactly that value. *)
MessageTypePresentKept ==
    \A t \in 1..Len(tasks) :
        tasks[t].kind = "message"
        => PublishedWithType(t, IF tasks[t].messageType = None
                                THEN "user" ELSE tasks[t].messageType)

(* C29 (amended)  A message frame without messageType, or with an empty one,
   is persisted and delivered with messageType "user"; a frame with a non-empty
   messageType is persisted and delivered with exactly that value. *)
MessageTypeDefault ==
    \A t \in 1..Len(tasks) :
        tasks[t].kind = "message"
        => PublishedWithType(t, IF tasks[t].messageType \in {None, ""}
                                THEN "user" ELSE tasks[t].messageType)

\* a member of a room has sent it one frame with an empty messageType and one
\* with "bot": the two records are stored and have been delivered to it as
\* "user" and "bot"
MessageTypeDefaultWitness ==
    \E c \in Conns : \E t1, t2 \in 1..Len(tasks) :
        /\ \A t \in {t1, t2} :
              /\ IsTask(t, c, {"message"}) /\ tasks[t].pc = "done"
              /\ MemberSince(c, t, tasks[t].chatRoomId)
              /\ Appended(t)
              /\ \E i \in 1..Len(inbox[c]) :
                    inbox[c][i] = Payload("newMessage", None, None, tasks[t].msg)
        /\ tasks[t1].messageType = "" /\ tasks[t1].msg.messageType = "user"
        /\ tasks[t2].messageType = "bot" /\ tasks[t2].msg.messageType = "bot"

\* no handler is suspended at an await
Quiescent == InFlight = {} /\ runq = <<>>

(* C30  No stale presence: in every quiescent state, every active participant
   record (room, name) corresponds to at least one open connection that is
   associated with that room and name. *)
NoStalePresence ==
    Quiescent =>
        \A r \in Rooms : \A i \in 1..Len(participants[r]) :
            participants[r][i].isActive
            => \E c \in Conns :
                  /\ ws[c].readyState = "OPEN"
                  /\ ws[c].chatRoomId = r
                  /\ ws[c].userName = participants[r][i].userName

\* invocation u is the last join of connection c, and c has not left since
JoinedNotLeft(c, u) ==
    /\ IsTask(u, c, {"join"})
    /\ \A v \in (u + 1)..Len(tasks) : ~IsTask(v, c, {"join", "leave", "close"})

(* C31  No missing presence: in every quiescent state, every open connection
   that has joined and not left has an active participant record for its
   (room, name), also when another connection with the same display name has
   left or disconnected. *)
NoMissingPresence ==
    Quiescent =>
        \A c \in Conns : \A u \in 1..Len(tasks) :
            (ws[c].readyState = "OPEN" /\ JoinedNotLeft(c, u))
            => /\ ActiveRecords(tasks[u].chatRoomId, tasks[u].userName) # {}
               /\ getActiveParticipantCount(tasks[u].chatRoomId) >= 1

(* C32  Presence drains on disconnect: once every connection has closed and
   every handler has run to completion, no room has an active participant
   record, whatever frames were processed before. *)
PresenceDrains ==
    ((\A c \in Conns : ws[c].readyState = "CLOSED") /\ Quiescent)
    => \A r \in Rooms : getActiveParticipantCount(r) = 0

\* invocation u is the last join of connection c before invocation t
LastJoinBefore(u, t, c) ==
    /\ u < t
    /\ IsTask(u, c, {"join"})
    /\ \A v \in (u + 1)..(t - 1) : ~IsTask(v, c, {"join"})

(* C33  Author integrity: every record persisted for a message frame of a
   joined connection carries the display name under which the connection
   joined, and every typing event delivered for a typing frame of a joined
   connection carries that name. *)
AuthorIntegrity ==
    /\ [](\A t \in 1..Len(tasks) : \A u \in 1..Len(tasks) :
            (tasks[t].kind = "message" /\ LastJoinBefore(u, t, tasks[t].conn))
            => \A r \in Rooms : \A i \in RecordsOf(t, r) :
                  messages[r][i].userName = tasks[u].userName)
    /\ [][\A t \in 1..Len(tasks') : \A u \in 1..Len(tasks) :
            (/\ Invoked(t)
             /\ tasks'[t].kind = "typing"
             /\ LastJoinBefore(u, t, tasks'[t].conn))
            => \A d \in Conns :
                  Receives(d) => Received(d).userName = tasks[u].userName]_vars

\* MemStorage.deleteChatRoom of an id without room metadata: chatRooms.delete(id)
\* is false, so neither the messages nor the participants of the id are deleted
deleteChatRoomMem(room) ==
    [messages |-> messages, participants |-> participants, deleted |-> FALSE]

\* MongoStorage.deleteChatRoom of an id without room metadata: both deleteMany
\* run before deleteOne finds no room document
deleteChatRoomMongo(room) ==
    [messages |-> [messages EXCEPT ![room] = <<>>],
     participants |-> [participants EXCEPT ![room] = <<>>],
     deleted |-> FALSE]

deleteChatRoom(room) ==
    IF storageKind = "mem" THEN deleteChatRoomMem(room) ELSE deleteChatRoomMongo(room)

\* app.delete("/api/chatrooms/:id") for an id that has no room metadata (the
\* message routes create no room): the answer is 404 with either storage
DeleteChatRoom(room) ==
    /\ runq = <<>>
    /\ messages' = deleteChatRoom(room).messages
    /\ participants' = deleteChatRoom(room).participants
    /\ UNCHANGED <<response, storageKind, ws, tasks, runq, chunk, now, inbox>>

\* the storage driven through the REST routes: createMessage, getMessages, deleteChatRoom
StoreNext ==
    \/ \E r \in Rooms, n \in Names, x \in Contents : PostMessage(r, n, x)
    \/ \E t \in 1..MaxFrames : PostSaved(t)
    \/ \E r \in Rooms, l \in 0..MaxLimit : GetMessages(r, l)
    \/ \E r \in Rooms : DeleteChatRoom(r)

StoreSpec == Init /\ [][StoreNext]_vars

(* C34  Storage implementations are interchangeable: on every store content
   reached by a sequence of storage calls, MemStorage and MongoStorage answer
   getMessages(room, limit) with the same records for every room and limit,
   and deleteChatRoom(room) returns the same result and leaves the same
   messages and participants with both. *)
StorageInterchangeable ==
    /\ \A r \in Rooms : \A l \in 0..MaxLimit :
          getMessagesMem(r, l) = getMessagesMongo(r, l)
    /\ \A r \in Rooms : deleteChatRoomMem(r) = deleteChatRoomMongo(r)

(* C35  No send to a closed connection: every payload is delivered to a
   connection whose transport is OPEN at the moment of the send; a connection
   whose transport has closed receives nothing afterwards, although its room
   and name fields are still set. *)
NoSendToClosed ==
    [][\A c \in Conns :
          /\ Receives(c) => ws[c].readyState = "OPEN"
          /\ ws[c].readyState = "CLOSED" => (ws'[c].readyState = "CLOSED" /\ inbox'[c] = inbox[c])]_vars

NoSendToClosedWitness ==
    \E c \in Conns : \E d \in Conns \ {c} : \E t \in 1..Len(tasks) :
        /\ ws[c].readyState = "CLOSED"
        /\ ws[c].chatRoomId \in Rooms
        /\ IsTask(t, c, {"close"}) /\ tasks[t].pc = "done"
        /\ tasks[t].chatRoomId = ws[c].chatRoomId
        /\ \E i \in 1..Len(inbox[d]) :
              inbox[d][i] = Payload("userLeft", tasks[t].userName, ws[c].chatRoomId, NoMessage)
        /\ \A i \in 1..Len(inbox[c]) : inbox[c][i].type # "userLeft"

(* C36  Frame of message and typing: no step of the handler of a message or
   typing frame changes a connection's room/name association or a participant
   record (so every activeParticipantCount stays as it is); a typing frame
   leaves every log unchanged; a message frame leaves the log of every other
   room unchanged and appends its one record to the log of the room it is
   published to, exactly once. *)
MessageTypingFrame ==
    /\ [][\A t \in 1..Len(tasks') :
            (HandlerStep(t) /\ tasks'[t].kind \in {"message", "typing"})
            => /\ \A c \in Conns : /\ ws'[c].chatRoomId = ws[c].chatRoomId
                                   /\ ws'[c].userName = ws[c].userName
               /\ participants' = participants
               /\ \A r \in Rooms : getActiveParticipantCount(r)' = getActiveParticipantCount(r)
               /\ \A r \in Rooms \ {tasks'[t].chatRoomId} : messages'[r] = messages[r]
               /\ tasks'[t].kind = "typing" => messages' = messages
               /\ tasks'[t].kind = "message"
                  => LET room == tasks'[t].chatRoomId
                     IN  \/ messages'[room] = messages[room]
                         \/ /\ messages'[room] = Append(messages[room], tasks'[t].msg)
                            /\ RecordsOf(t, room) = {}]_vars
    /\ [](\A t \in 1..Len(tasks) :
            (tasks[t].kind \in {"message", "typing"} /\ tasks[t].pc = "done")
            => \A r \in Rooms :
                  Cardinality(RecordsOf(t, r)) =
                      IF tasks[t].kind = "message" /\ r = tasks[t].chatRoomId THEN 1 ELSE 0)

MessageTypingFrameWitness ==
    \E t \in 1..Len(tasks) : \E u \in 1..Len(tasks) :
        /\ tasks[t].kind = "message" /\ tasks[t].pc = "done"
        /\ tasks[u].kind = "typing" /\ tasks[u].pc = "done"
        /\ Cardinality(RecordsOf(t, tasks[t].chatRoomId)) = 1
        /\ getActiveParticipantCount(tasks[t].chatRoomId) >= 1
        /\ ws[tasks[t].conn].chatRoomId = tasks[t].chatRoomId
        /\ ws[tasks[u].conn].chatRoomId = tasks[u].chatRoomId
        /\ JoinBetween(tasks[t].conn, 1, t - 1)
        /\ JoinBetween(tasks[u].conn, 1, u - 1)

====
